---------------------------- MODULE Spec2Model ----------------------------
(***************************************************************************)
(* Model of src/src/lib/workflow-generation-state.ts: the finite state     *)
(* machine that sequences workflow generation (WorkflowGenerationState,    *)
(* ALLOWED_TRANSITIONS, WorkflowGenerationStateManager).                   *)
(*                                                                         *)
(* The aggregate `executionState` is the variable es.  Every method of the *)
(* manager is an operator from the aggregate before the call to a record   *)
(* [es, outcome, error] (the aggregate after the call and what the caller  *)
(* is handed), built from the operators of the methods it calls, as in the *)
(* source.  An entry of state_history is modelled by its state: no method  *)
(* reads the timestamp or the reason of an entry.  console output of the   *)
(* debug mode is not modelled.                                             *)
(***************************************************************************)
EXTENDS Naturals, Sequences, FiniteSets, TLC

VARIABLES es, last

vars == <<es, last>>

-----------------------------------------------------------------------------
(* enum WorkflowGenerationState *)

STATE_0_IDLE == "STATE_0_IDLE"
STATE_1_USER_PROMPT_RECEIVED == "STATE_1_USER_PROMPT_RECEIVED"
STATE_2_CLARIFICATION_ACTIVE == "STATE_2_CLARIFICATION_ACTIVE"
STATE_3_UNDERSTANDING_CONFIRMED == "STATE_3_UNDERSTANDING_CONFIRMED"
STATE_4_CREDENTIAL_COLLECTION == "STATE_4_CREDENTIAL_COLLECTION"
STATE_5_WORKFLOW_BUILDING == "STATE_5_WORKFLOW_BUILDING"
STATE_6_WORKFLOW_VALIDATION == "STATE_6_WORKFLOW_VALIDATION"
STATE_7_WORKFLOW_READY == "STATE_7_WORKFLOW_READY"
STATE_ERROR_HANDLING == "STATE_ERROR_HANDLING"

WorkflowGenerationState ==
    { STATE_0_IDLE, STATE_1_USER_PROMPT_RECEIVED, STATE_2_CLARIFICATION_ACTIVE,
      STATE_3_UNDERSTANDING_CONFIRMED, STATE_4_CREDENTIAL_COLLECTION,
      STATE_5_WORKFLOW_BUILDING, STATE_6_WORKFLOW_VALIDATION,
      STATE_7_WORKFLOW_READY, STATE_ERROR_HANDLING }

(* The successor lists, in the order of the source. *)
ALLOWED_TRANSITIONS ==
    [ s \in WorkflowGenerationState |->
        CASE s = STATE_0_IDLE -> << STATE_1_USER_PROMPT_RECEIVED >>
          [] s = STATE_1_USER_PROMPT_RECEIVED -> << STATE_2_CLARIFICATION_ACTIVE >>
          [] s = STATE_2_CLARIFICATION_ACTIVE ->
                << STATE_3_UNDERSTANDING_CONFIRMED, STATE_2_CLARIFICATION_ACTIVE >>
          [] s = STATE_3_UNDERSTANDING_CONFIRMED ->
                << STATE_4_CREDENTIAL_COLLECTION, STATE_2_CLARIFICATION_ACTIVE,
                   STATE_5_WORKFLOW_BUILDING >>
          [] s = STATE_4_CREDENTIAL_COLLECTION -> << STATE_5_WORKFLOW_BUILDING >>
          [] s = STATE_5_WORKFLOW_BUILDING ->
                << STATE_6_WORKFLOW_VALIDATION, STATE_4_CREDENTIAL_COLLECTION >>
          [] s = STATE_6_WORKFLOW_VALIDATION ->
                << STATE_7_WORKFLOW_READY, STATE_5_WORKFLOW_BUILDING,
                   STATE_ERROR_HANDLING >>
          [] s = STATE_7_WORKFLOW_READY -> << >>
          [] s = STATE_ERROR_HANDLING ->
                << STATE_2_CLARIFICATION_ACTIVE, STATE_0_IDLE >> ]

-----------------------------------------------------------------------------
(* JavaScript values *)

(* The value of an absent property (last_error before handleError, a key   *)
(* that an object does not hold).                                          *)
Undefined == "<undefined>"

(* An object literal {} : the mapping with no key. *)
EmptyObject == << >>

(* Property names that every object inherits from Object.prototype (the    *)
(* one the model uses as a credential name).                               *)
ObjectPrototypeKeys == { "constructor" }

(* obj[key]: the object's own value, else the inherited property (a        *)
(* function, written here as a non-empty text), else undefined.            *)
Get(obj, key) ==
    IF key \in DOMAIN obj THEN obj[key]
    ELSE IF key \in ObjectPrototypeKeys THEN "[inherited]"
    ELSE Undefined

(* Whether !v is false, for v a string or undefined: undefined and the    *)
(* empty string are falsy.                                                 *)
Truthy(v) == v \notin { Undefined, "" }

(* Array.prototype.includes *)
Includes(list, x) == \E i \in 1..Len(list) : list[i] = x

(* String.prototype.toLowerCase on the credential names of the model. *)
ToLowerCase(name) ==
    CASE name = "Google" -> "google"
      [] name = "Slack" -> "slack"
      [] OTHER -> name

(* name.replace(/_/g, '_'): every underscore is replaced by an underscore. *)
ReplaceUnderscores(name) == name

-----------------------------------------------------------------------------
(* class WorkflowGenerationStateManager *)

(* The retry budget of retryBuilding. *)
MaxRetryCount == 3

(* initializeState(): the aggregate of a fresh manager. *)
initializeState(debugMode) ==
    [ current_state |-> STATE_0_IDLE,
      user_prompt |-> "",
      clarifying_questions |-> << >>,
      clarifying_answers |-> EmptyObject,
      final_understanding |-> "",
      credentials_required |-> << >>,
      credentials_provided |-> EmptyObject,
      workflow_blueprint |-> EmptyObject,
      validation_errors |-> << >>,
      retry_count |-> 0,
      last_error |-> Undefined,
      debug_mode |-> debugMode,
      state_history |-> << STATE_0_IDLE >> ]

(* An error message: the text that does not vary (kind) and the values    *)
(* the source puts into it (detail), in their order.                       *)
Error(kind, detail) == [ kind |-> kind, detail |-> detail ]
NoError == Error(Undefined, << >>)

(* What a call hands back: the aggregate after it, and "success" or        *)
(* "failure" ({success, error}), "void" (a method that returns nothing)    *)
(* or "throws".                                                            *)
Success(s) == [ es |-> s, outcome |-> "success", error |-> NoError ]
Failure(s, error) == [ es |-> s, outcome |-> "failure", error |-> error ]
Void(s) == [ es |-> s, outcome |-> "void", error |-> NoError ]
Throws(s, error) == [ es |-> s, outcome |-> "throws", error |-> error ]

(* The properties of the aggregate whose value is an object (an array or a *)
(* mapping): a variable holds a reference to it.                           *)
ObjectFields ==
    { "clarifying_questions", "clarifying_answers", "credentials_required",
      "credentials_provided", "workflow_blueprint", "validation_errors",
      "state_history" }

(* getExecutionState(): { ...this.executionState }, a new object that has  *)
(* the properties of the aggregate.  `value` is what it reads as; `shared` *)
(* are its properties that refer to the very object the aggregate refers   *)
(* to, the spread having copied the reference.                             *)
getExecutionState(s) == [ value |-> s, shared |-> ObjectFields ]

(* getCurrentState() *)
getCurrentState(s) == s.current_state

(* getStateHistory(): a new array of the entries. *)
getStateHistory(s) == s.state_history

(* canTransitionTo with indexOf(newState) > 0 for includes(newState): the *)
(* first successor of a state is not found.                                *)
canTransitionToIndexOf(s, newState) ==
    LET allowedStates == ALLOWED_TRANSITIONS[s.current_state]
    IN  IF \E i \in 2..Len(allowedStates) : allowedStates[i] = newState
        THEN [ valid |-> TRUE, reason |-> NoError ]
        ELSE [ valid |-> FALSE,
               reason |-> Error("Invalid transition",
                                << s.current_state, newState >> \o allowedStates) ]

(* canTransitionTo(newState): {valid, reason}; reads the aggregate only. *)
canTransitionTo(s, newState) ==
    LET allowedStates == ALLOWED_TRANSITIONS[s.current_state]
    IN  IF Includes(allowedStates, newState)
        THEN [ valid |-> TRUE, reason |-> NoError ]
        ELSE [ valid |-> FALSE,
               reason |-> Error("Invalid transition",
                                << s.current_state, newState >> \o allowedStates) ]

(* transitionTo that logs the transition before it validates it: a        *)
(* refused transition leaves its entry in state_history.                   *)
transitionToLogsFirst(s, newState) ==
    LET validation == canTransitionTo(s, newState)
        logged == [ s EXCEPT !.state_history = Append(@, newState) ]
    IN  IF ~validation.valid
        THEN Failure(logged, validation.reason)
        ELSE Success([ logged EXCEPT !.current_state = newState ])

(* transitionTo(newState, reason) *)
transitionTo(s, newState) ==
    LET validation == canTransitionTo(s, newState)
    IN  IF ~validation.valid
        THEN Failure(s, validation.reason)
        ELSE Success([ s EXCEPT !.state_history = Append(@, newState),
                                !.current_state = newState ])

(* setUserPrompt without its test of the state: the prompt is written in   *)
(* any state and nothing is thrown.                                        *)
setUserPromptAnyState(s, prompt) ==
    Void(transitionTo([ s EXCEPT !.user_prompt = prompt ],
                      STATE_1_USER_PROMPT_RECEIVED).es)

(* setUserPrompt(prompt) *)
setUserPrompt(s, prompt) ==
    IF s.current_state # STATE_0_IDLE
    THEN Throws(s, Error("Can only set user prompt from IDLE state", << >>))
    ELSE Void(transitionTo([ s EXCEPT !.user_prompt = prompt ],
                           STATE_1_USER_PROMPT_RECEIVED).es)

(* setClarifyingQuestions without its test of the state: the transition   *)
(* is tried in any state, and the table allows it from four.               *)
setClarifyingQuestionsAnyState(s, questions) ==
    Void(transitionTo([ s EXCEPT !.clarifying_questions = questions ],
                      STATE_2_CLARIFICATION_ACTIVE).es)

(* setClarifyingQuestions(questions) *)
setClarifyingQuestions(s, questions) ==
    LET s1 == [ s EXCEPT !.clarifying_questions = questions ]
    IN  IF s1.current_state = STATE_1_USER_PROMPT_RECEIVED
        THEN Void(transitionTo(s1, STATE_2_CLARIFICATION_ACTIVE).es)
        ELSE Void(s1)

(* setClarifyingAnswers(answers) *)
setClarifyingAnswers(s, answers) ==
    Void([ s EXCEPT !.clarifying_answers = answers ])

(* confirmUnderstanding that stores the text before it tests the state. *)
confirmUnderstandingWritesFirst(s, finalUnderstanding) ==
    LET s1 == [ s EXCEPT !.final_understanding = finalUnderstanding ]
    IN  IF s1.current_state # STATE_2_CLARIFICATION_ACTIVE
        THEN Failure(s1, Error("Can only confirm understanding from CLARIFICATION_ACTIVE state",
                               << >>))
        ELSE transitionTo(s1, STATE_3_UNDERSTANDING_CONFIRMED)

(* confirmUnderstanding(finalUnderstanding) *)
confirmUnderstanding(s, finalUnderstanding) ==
    IF s.current_state # STATE_2_CLARIFICATION_ACTIVE
    THEN Failure(s, Error("Can only confirm understanding from CLARIFICATION_ACTIVE state",
                          << >>))
    ELSE transitionTo([ s EXCEPT !.final_understanding = finalUnderstanding ],
                      STATE_3_UNDERSTANDING_CONFIRMED)

(* setRequiredCredentials without its second branch: credentials detected  *)
(* during building do not lead back to CredentialCollection.               *)
setRequiredCredentialsFromConfirmed(s, credentials) ==
    LET s1 == [ s EXCEPT !.credentials_required = credentials ]
    IN  IF s1.current_state = STATE_3_UNDERSTANDING_CONFIRMED
        THEN Void(transitionTo(s1, STATE_4_CREDENTIAL_COLLECTION).es)
        ELSE Void(s1)

(* setRequiredCredentials(credentials) *)
setRequiredCredentials(s, credentials) ==
    LET s1 == [ s EXCEPT !.credentials_required = credentials ]
    IN  IF s1.current_state = STATE_3_UNDERSTANDING_CONFIRMED
        THEN Void(transitionTo(s1, STATE_4_CREDENTIAL_COLLECTION).es)
        ELSE IF s1.current_state = STATE_5_WORKFLOW_BUILDING
             THEN Void(transitionTo(s1, STATE_4_CREDENTIAL_COLLECTION).es)
             ELSE Void(s1)

(* setProvidedCredentials that goes on to WorkflowBuilding when the table  *)
(* allows it.                                                              *)
setProvidedCredentialsAndBuild(s, credentials) ==
    Void(transitionTo([ s EXCEPT !.credentials_provided = credentials ],
                      STATE_5_WORKFLOW_BUILDING).es)

(* setProvidedCredentials(credentials) *)
setProvidedCredentials(s, credentials) ==
    Void([ s EXCEPT !.credentials_provided = credentials ])

(* The test without its second lookup, under the normalised name. *)
IsMissingCredentialExactName(provided, cred) == ~Truthy(Get(provided, cred))

(* The test of startBuilding's filter: whether cred counts as missing. *)
IsMissingCredential(provided, cred) ==
    /\ ~Truthy(Get(provided, cred))
    /\ ~Truthy(Get(provided, ReplaceUnderscores(ToLowerCase(cred))))

(* credentials_required.filter(...) of startBuilding: the missing names,   *)
(* in the order of credentials_required.                                   *)
RECURSIVE missingCredentials(_, _)
missingCredentials(required, provided) ==
    IF required = << >> THEN << >>
    ELSE IF IsMissingCredential(provided, Head(required))
         THEN << Head(required) >> \o missingCredentials(Tail(required), provided)
         ELSE missingCredentials(Tail(required), provided)

(* startBuilding() *)
startBuilding(s) ==
    LET missing == missingCredentials(s.credentials_required, s.credentials_provided)
    IN  IF Len(s.credentials_required) > 0 /\ Len(missing) > 0
        THEN Failure(s, Error("Cannot build workflow: Missing required credentials",
                               missing))
        ELSE IF ~Truthy(s.final_understanding)
             THEN Failure(s, Error("Cannot build workflow: Understanding not confirmed",
                                    << >>))
             ELSE transitionTo(s, STATE_5_WORKFLOW_BUILDING)

(* setWorkflowBlueprint that assigns current_state itself instead of       *)
(* calling transitionTo: the table is not consulted.                       *)
setWorkflowBlueprintUnvalidated(s, blueprint) ==
    Void([ s EXCEPT !.workflow_blueprint = blueprint,
                    !.state_history = Append(@, STATE_6_WORKFLOW_VALIDATION),
                    !.current_state = STATE_6_WORKFLOW_VALIDATION ])

(* setWorkflowBlueprint(blueprint) *)
setWorkflowBlueprint(s, blueprint) ==
    Void(transitionTo([ s EXCEPT !.workflow_blueprint = blueprint ],
                      STATE_6_WORKFLOW_VALIDATION).es)

(* addValidationError(error) *)
addValidationError(s, error) ==
    Void([ s EXCEPT !.validation_errors = Append(@, error) ])

(* clearValidationErrors() *)
clearValidationErrors(s) ==
    Void([ s EXCEPT !.validation_errors = << >> ])

(* retryBuilding that leaves the blueprint of the failed attempt. *)
retryBuildingKeepsBlueprint(s) ==
    IF s.retry_count >= MaxRetryCount
    THEN Failure(s, Error("Maximum retry count (3) reached. Moving to error handling.",
                          << >>))
    ELSE LET s1 == [ s EXCEPT !.retry_count = @ + 1 ]
             s2 == clearValidationErrors(s1).es
         IN  transitionTo(s2, STATE_5_WORKFLOW_BUILDING)

(* retryBuilding with > for >= in its guard: a fourth retry is allowed. *)
retryBuildingOffByOne(s) ==
    IF s.retry_count > MaxRetryCount
    THEN Failure(s, Error("Maximum retry count (3) reached. Moving to error handling.",
                          << >>))
    ELSE LET s1 == [ s EXCEPT !.retry_count = @ + 1,
                              !.workflow_blueprint = EmptyObject ]
             s2 == clearValidationErrors(s1).es
         IN  transitionTo(s2, STATE_5_WORKFLOW_BUILDING)

(* retryBuilding that escalates by itself: on an exhausted budget it       *)
(* records the error and moves to ErrorHandling, as handleError does,      *)
(* before it hands back the failure.                                       *)
retryBuildingEscalates(s) ==
    IF s.retry_count >= MaxRetryCount
    THEN Failure(transitionTo([ s EXCEPT !.last_error = "retries exhausted" ],
                              STATE_ERROR_HANDLING).es,
                 Error("Maximum retry count (3) reached. Moving to error handling.",
                       << >>))
    ELSE LET s1 == [ s EXCEPT !.retry_count = @ + 1,
                              !.workflow_blueprint = EmptyObject ]
             s2 == clearValidationErrors(s1).es
         IN  transitionTo(s2, STATE_5_WORKFLOW_BUILDING)

(* retryBuilding() *)
retryBuilding(s) ==
    IF s.retry_count >= MaxRetryCount
    THEN Failure(s, Error("Maximum retry count (3) reached. Moving to error handling.",
                          << >>))
    ELSE LET s1 == [ s EXCEPT !.retry_count = @ + 1,
                              !.workflow_blueprint = EmptyObject ]
             s2 == clearValidationErrors(s1).es
         IN  transitionTo(s2, STATE_5_WORKFLOW_BUILDING)

(* markWorkflowReady without its second guard: a blueprint without nodes  *)
(* is accepted.                                                            *)
markWorkflowReadyAnyBlueprint(s) ==
    IF Len(s.validation_errors) > 0
    THEN Failure(s, Error("Cannot mark workflow as ready: validation errors remain",
                          << Len(s.validation_errors) >>))
    ELSE transitionTo(s, STATE_7_WORKFLOW_READY)

(* markWorkflowReady() *)
markWorkflowReady(s) ==
    IF Len(s.validation_errors) > 0
    THEN Failure(s, Error("Cannot mark workflow as ready: validation errors remain",
                          << Len(s.validation_errors) >>))
    ELSE IF \/ "nodes" \notin DOMAIN s.workflow_blueprint
            \/ Len(s.workflow_blueprint.nodes) = 0
         THEN Failure(s, Error("Cannot mark workflow as ready: No workflow blueprint",
                               << >>))
         ELSE transitionTo(s, STATE_7_WORKFLOW_READY)

(* handleError that enters ErrorHandling from any state, without the      *)
(* table.                                                                  *)
handleErrorUnvalidated(s, error) ==
    Void([ s EXCEPT !.last_error = error,
                    !.state_history = Append(@, STATE_ERROR_HANDLING),
                    !.current_state = STATE_ERROR_HANDLING ])

(* handleError(error) *)
handleError(s, error) ==
    Void(transitionTo([ s EXCEPT !.last_error = error ], STATE_ERROR_HANDLING).es)

(* reset that clears the fields and keeps the audit log. *)
resetKeepsHistory(s) ==
    Void([ initializeState(s.debug_mode) EXCEPT !.state_history = s.state_history ])

(* reset that reinitializes the declared fields and leaves the optional    *)
(* last_error.                                                             *)
resetKeepsLastError(s) ==
    Void([ initializeState(s.debug_mode) EXCEPT !.last_error = s.last_error ])

(* reset() *)
reset(s) == Void(initializeState(s.debug_mode))

(* isTerminalState that knows WorkflowReady only. *)
isTerminalStateReadyOnly(s) ==
    s.current_state = STATE_7_WORKFLOW_READY

(* isTerminalState() *)
isTerminalState(s) ==
    \/ s.current_state = STATE_7_WORKFLOW_READY
    \/ s.current_state = STATE_ERROR_HANDLING

(* Steps 3 to 5 that stop in CredentialCollection: after the transition    *)
(* to it, success is handed back without the call of startBuilding.        *)
ensureFromConfirmedStopsAtCollection(s) ==
    LET toCollection == transitionTo(s, STATE_4_CREDENTIAL_COLLECTION)
    IN  IF s.current_state = STATE_3_UNDERSTANDING_CONFIRMED
           /\ Len(s.credentials_required) > 0
        THEN toCollection
        ELSE IF s.current_state = STATE_3_UNDERSTANDING_CONFIRMED
        THEN startBuilding(s)
        ELSE IF s.current_state = STATE_4_CREDENTIAL_COLLECTION
        THEN startBuilding(s)
        ELSE IF s.current_state \in { STATE_5_WORKFLOW_BUILDING,
                                      STATE_6_WORKFLOW_VALIDATION,
                                      STATE_7_WORKFLOW_READY }
        THEN Success(s)
        ELSE Failure(s, Error("Invalid state for building", << s.current_state >>))

(* Steps 3 to 5 that start building again from WorkflowValidation instead *)
(* of reporting success.                                                   *)
ensureFromConfirmedRebuilds(s) ==
    LET toCollection == transitionTo(s, STATE_4_CREDENTIAL_COLLECTION)
        s3 == IF /\ s.current_state = STATE_3_UNDERSTANDING_CONFIRMED
                 /\ Len(s.credentials_required) > 0
              THEN toCollection.es ELSE s
    IN  IF s.current_state = STATE_3_UNDERSTANDING_CONFIRMED
           /\ Len(s.credentials_required) > 0 /\ toCollection.outcome # "success"
        THEN toCollection
        ELSE IF s.current_state = STATE_3_UNDERSTANDING_CONFIRMED
                /\ ~(Len(s.credentials_required) > 0)
        THEN startBuilding(s)
        ELSE IF s3.current_state \in { STATE_4_CREDENTIAL_COLLECTION,
                                       STATE_6_WORKFLOW_VALIDATION }
        THEN startBuilding(s3)
        ELSE IF s3.current_state \in { STATE_5_WORKFLOW_BUILDING,
                                       STATE_7_WORKFLOW_READY }
        THEN Success(s3)
        ELSE Failure(s3, Error("Invalid state for building", << s3.current_state >>))

(* ensureStateForBuilding(), from "Now we should be in STATE_3" on: s is  *)
(* the aggregate after step 2.                                             *)
ensureFromConfirmed(s) ==
    LET toCollection == transitionTo(s, STATE_4_CREDENTIAL_COLLECTION)
        s3 == IF /\ s.current_state = STATE_3_UNDERSTANDING_CONFIRMED
                 /\ Len(s.credentials_required) > 0
              THEN toCollection.es ELSE s
    IN  IF s.current_state = STATE_3_UNDERSTANDING_CONFIRMED
           /\ Len(s.credentials_required) > 0 /\ toCollection.outcome # "success"
        THEN toCollection
        ELSE IF s.current_state = STATE_3_UNDERSTANDING_CONFIRMED
                /\ ~(Len(s.credentials_required) > 0)
        THEN startBuilding(s)
        ELSE IF s3.current_state = STATE_4_CREDENTIAL_COLLECTION
        THEN startBuilding(s3)
        ELSE IF s3.current_state \in { STATE_5_WORKFLOW_BUILDING,
                                       STATE_6_WORKFLOW_VALIDATION,
                                       STATE_7_WORKFLOW_READY }
        THEN Success(s3)
        ELSE Failure(s3, Error("Invalid state for building", << s3.current_state >>))

(* ensureStateForBuilding that hands back the result of                    *)
(* confirmUnderstanding in step 2: one call makes one step.                *)
ensureStateForBuildingOneStep(s) ==
    IF s.current_state \in { STATE_0_IDLE, STATE_1_USER_PROMPT_RECEIVED }
    THEN Failure(s, Error("Cannot build: Understanding not confirmed", << >>))
    ELSE IF s.current_state = STATE_2_CLARIFICATION_ACTIVE
    THEN IF ~Truthy(s.final_understanding)
         THEN Failure(s, Error("Cannot build: Final understanding not set", << >>))
         ELSE confirmUnderstanding(s, s.final_understanding)
    ELSE ensureFromConfirmed(s)

(* ensureStateForBuilding that recovers from ErrorHandling: it moves back  *)
(* to ClarificationActive instead of reporting the invalid state.          *)
ensureStateForBuildingRecovers(s) ==
    IF s.current_state = STATE_ERROR_HANDLING
    THEN transitionTo(s, STATE_2_CLARIFICATION_ACTIVE)
    ELSE IF s.current_state \in { STATE_0_IDLE, STATE_1_USER_PROMPT_RECEIVED }
    THEN Failure(s, Error("Cannot build: Understanding not confirmed", << >>))
    ELSE IF s.current_state = STATE_2_CLARIFICATION_ACTIVE
    THEN IF ~Truthy(s.final_understanding)
         THEN Failure(s, Error("Cannot build: Final understanding not set", << >>))
         ELSE LET transitionResult == confirmUnderstanding(s, s.final_understanding)
              IN  IF transitionResult.outcome # "success"
                  THEN transitionResult
                  ELSE ensureFromConfirmed(transitionResult.es)
    ELSE ensureFromConfirmed(s)

(* ensureStateForBuilding() *)
ensureStateForBuilding(s) ==
    IF s.current_state \in { STATE_0_IDLE, STATE_1_USER_PROMPT_RECEIVED }
    THEN Failure(s, Error("Cannot build: Understanding not confirmed", << >>))
    ELSE IF s.current_state = STATE_2_CLARIFICATION_ACTIVE
    THEN IF ~Truthy(s.final_understanding)
         THEN Failure(s, Error("Cannot build: Final understanding not set", << >>))
         ELSE LET transitionResult == confirmUnderstanding(s, s.final_understanding)
              IN  IF transitionResult.outcome # "success"
                  THEN transitionResult
                  ELSE ensureFromConfirmed(transitionResult.es)
    ELSE ensureFromConfirmed(s)

(* moveToValidation that writes the blueprint before it tries to reach     *)
(* WorkflowBuilding: the blueprint is written whatever                     *)
(* ensureStateForBuilding hands back.                                      *)
moveToValidationWritesFirst(s, blueprint) ==
    LET written == [ s EXCEPT !.workflow_blueprint = blueprint ]
        buildResult == ensureStateForBuilding(written)
        s1 == IF s.current_state # STATE_5_WORKFLOW_BUILDING
              THEN buildResult.es ELSE written
    IN  IF s.current_state # STATE_5_WORKFLOW_BUILDING
           /\ buildResult.outcome # "success"
        THEN buildResult
        ELSE transitionTo(s1, STATE_6_WORKFLOW_VALIDATION)

(* moveToValidation(blueprint) *)
moveToValidation(s, blueprint) ==
    LET buildResult == ensureStateForBuilding(s)
        s1 == IF s.current_state # STATE_5_WORKFLOW_BUILDING
              THEN buildResult.es ELSE s
    IN  IF s.current_state # STATE_5_WORKFLOW_BUILDING
           /\ buildResult.outcome # "success"
        THEN buildResult
        ELSE transitionTo([ s1 EXCEPT !.workflow_blueprint = blueprint ],
                          STATE_6_WORKFLOW_VALIDATION)

(* moveToReady that tries from every state: outside WorkflowValidation it  *)
(* calls moveToValidation, which drives the machine as far as it can.      *)
moveToReadyFromAnywhere(s) ==
    IF s.current_state = STATE_6_WORKFLOW_VALIDATION
    THEN markWorkflowReady(s)
    ELSE LET valResult == moveToValidation(s, s.workflow_blueprint)
         IN  IF valResult.outcome # "success"
             THEN valResult
             ELSE markWorkflowReady(valResult.es)

(* moveToReady() *)
moveToReady(s) ==
    IF s.current_state = STATE_6_WORKFLOW_VALIDATION
    THEN markWorkflowReady(s)
    ELSE IF s.current_state = STATE_5_WORKFLOW_BUILDING
    THEN LET valResult == moveToValidation(s, s.workflow_blueprint)
         IN  IF valResult.outcome # "success"
             THEN valResult
             ELSE markWorkflowReady(valResult.es)
    ELSE Failure(s, Error("Cannot mark ready from state", << s.current_state >>))

-----------------------------------------------------------------------------
(* The mappings between the steps of the wizard and the states *)

(* stepMap of mapWizardStepToState *)
stepMap ==
    [ idle |-> STATE_0_IDLE,
      analyzing |-> STATE_1_USER_PROMPT_RECEIVED,
      questioning |-> STATE_2_CLARIFICATION_ACTIVE,
      refining |-> STATE_2_CLARIFICATION_ACTIVE,
      confirmation |-> STATE_3_UNDERSTANDING_CONFIRMED,
      credentials |-> STATE_4_CREDENTIAL_COLLECTION,
      building |-> STATE_5_WORKFLOW_BUILDING,
      complete |-> STATE_7_WORKFLOW_READY ]

(* mapWizardStepToState with 'refining' mapped to UnderstandingConfirmed. *)
mapWizardStepToStateRefined(step) ==
    IF step = "refining" THEN STATE_3_UNDERSTANDING_CONFIRMED
    ELSE IF Truthy(Get(stepMap, step)) THEN Get(stepMap, step) ELSE STATE_0_IDLE

(* mapWizardStepToState(step): stepMap[step] || STATE_0_IDLE *)
mapWizardStepToState(step) ==
    IF Truthy(Get(stepMap, step)) THEN Get(stepMap, step) ELSE STATE_0_IDLE

(* stateMap of mapStateToWizardStep *)
stateMap ==
    [ s \in WorkflowGenerationState |->
        CASE s = STATE_0_IDLE -> "idle"
          [] s = STATE_1_USER_PROMPT_RECEIVED -> "analyzing"
          [] s = STATE_2_CLARIFICATION_ACTIVE -> "questioning"
          [] s = STATE_3_UNDERSTANDING_CONFIRMED -> "confirmation"
          [] s = STATE_4_CREDENTIAL_COLLECTION -> "credentials"
          [] s = STATE_5_WORKFLOW_BUILDING -> "building"
          [] s = STATE_6_WORKFLOW_VALIDATION -> "building"
          [] s = STATE_7_WORKFLOW_READY -> "complete"
          [] s = STATE_ERROR_HANDLING -> "idle" ]

(* mapStateToWizardStep(state): stateMap[state] || 'idle' *)
mapStateToWizardStep(state) ==
    IF Truthy(Get(stateMap, state)) THEN Get(stateMap, state) ELSE "idle"

-----------------------------------------------------------------------------
(* The callers' inputs, and the bounds of the model *)

(* state_history holds at most MaxHistory entries: a call that would make  *)
(* it longer is not made.                                                  *)
MaxHistory == 7

(* validation_errors holds at most MaxErrors entries. *)
MaxErrors == 1

(* credentials_required holds at most MaxRequired names, where the callers *)
(* choose among all lists of credential names.                             *)
MaxRequired == 2

(* The callers that go back to ClarificationActive after they confirmed    *)
(* and then build with credentials need one entry more: state_history      *)
(* holds at most MaxLongHistory entries for them.                          *)
MaxLongHistory == 8

(* What the callers pass: the arguments they choose from. *)
Prompts == { "build a workflow" }
QuestionLists == { << >> }
AnswerMaps == { EmptyObject }
Understandings == { "", "understood" }
CredentialLists == { << >>, << "google" >> }
CredentialMaps == { EmptyObject, [ google |-> "token" ] }
Blueprints == { [ nodes |-> << "n1" >> ] }
ValidationErrors == { [ type |-> "error", message |-> "m" ] }
ErrorMessages == { "boom" }

(* The callers of a specification: their arguments, and `watch`, the      *)
(* methods whose calls the variable last records.                          *)
Watching(methods) ==
    [ watch |-> methods,
      maxHistory |-> MaxHistory,
      prompts |-> Prompts,
      questionLists |-> QuestionLists,
      answerMaps |-> AnswerMaps,
      understandings |-> Understandings,
      credentialLists |-> CredentialLists,
      credentialMaps |-> CredentialMaps,
      blueprints |-> Blueprints,
      validationErrors |-> ValidationErrors,
      errorMessages |-> ErrorMessages ]

(* Callers that choose the credentials among all lists of at most          *)
(* MaxRequired names and all mappings of the lower-case names to an empty  *)
(* or a non-empty text.                                                    *)
CredentialNames == { "google", "slack", "Google", "constructor" }
AllCredentialLists == UNION { [ 1..n -> CredentialNames ] : n \in 0..MaxRequired }
AllCredentialMaps ==
    UNION { [ keys -> { "", "token" } ] : keys \in SUBSET { "google", "slack" } }

WatchingCredentials(methods) ==
    [ Watching(methods) EXCEPT !.credentialLists = AllCredentialLists,
                               !.credentialMaps = AllCredentialMaps ]

(* Callers with the longer history. *)
WatchingLong(methods) ==
    [ Watching(methods) EXCEPT !.maxHistory = MaxLongHistory ]

(* Callers that pass any blueprint: none of its optional fields, an empty  *)
(* list of nodes or a node.                                                *)
AllBlueprints == { EmptyObject, [ nodes |-> << >> ], [ nodes |-> << "n1" >> ] }

WatchingBlueprints(methods) ==
    [ Watching(methods) EXCEPT !.blueprints = AllBlueprints ]

(* The steps the wizard passes: the keys of stepMap, a step that is none,  *)
(* the empty text and a name that every object inherits.                   *)
WizardSteps ==
    { "idle", "analyzing", "questioning", "refining", "confirmation",
      "credentials", "building", "complete", "unknown", "", "constructor" }

(* Callers that pass one of two prompts and one of three lists of          *)
(* questions (a question is modelled by its id).                           *)
AllPrompts == { "build a workflow", "send a mail" }
AllQuestionLists == { << >>, << "q1" >>, << "q2" >> }

WatchingPrompts(methods) ==
    [ Watching(methods) EXCEPT !.prompts = AllPrompts,
                               !.questionLists = AllQuestionLists ]

(* Callers that answer in rounds: the answers of a round map the ids of    *)
(* the questions it answers to texts.                                      *)
AllAnswerMaps == { EmptyObject, [ q1 |-> "yes" ], [ q2 |-> "no" ] }

WatchingAnswers(methods) ==
    [ Watching(methods) EXCEPT !.answerMaps = AllAnswerMaps ]

(* What a caller does to the object that getExecutionState handed back:    *)
(* it assigns a property of the object, or it changes the object that a    *)
(* property refers to.                                                     *)
CopyMutations ==
    { "current_state =", "retry_count =", "state_history.push",
      "validation_errors.push", "credentials_provided[key] =",
      "workflow_blueprint.nodes =" }

(* The aggregate of the manager after the caller has done mutation m to    *)
(* copy, the object that getExecutionState handed back for aggregate s: an *)
(* assignment of a property changes the copy alone; a change of an object  *)
(* is a change of the aggregate's object when the property is shared.      *)
AfterMutation(s, copy, m) ==
    CASE m = "state_history.push" /\ "state_history" \in copy.shared ->
            [ s EXCEPT !.state_history = Append(@, STATE_7_WORKFLOW_READY) ]
      [] m = "validation_errors.push" /\ "validation_errors" \in copy.shared ->
            [ s EXCEPT !.validation_errors =
                           Append(@, [ type |-> "error", message |-> "m" ]) ]
      [] m = "credentials_provided[key] =" /\ "credentials_provided" \in copy.shared ->
            [ s EXCEPT !.credentials_provided = [ google |-> "token" ] ]
      [] m = "workflow_blueprint.nodes =" /\ "workflow_blueprint" \in copy.shared ->
            [ s EXCEPT !.workflow_blueprint = [ nodes |-> << "n1" >> ] ]
      [] OTHER -> s

-----------------------------------------------------------------------------
(* The state machine: one action per public method *)

(* last: the method called last, what it handed back and the kind of its   *)
(* error, when the method is watched; Unwatched after a call of any other  *)
(* method.                                                                 *)
NoCall == [ op |-> "new", outcome |-> "void", error |-> Undefined ]
Unwatched == [ op |-> "unwatched", outcome |-> "void", error |-> Undefined ]

Init ==
    /\ es = initializeState(FALSE)
    /\ last = NoCall

(* Whether the aggregate that r hands back is within the bounds of the     *)
(* callers in.                                                             *)
Fits(in, r) ==
    /\ Len(r.es.state_history) <= in.maxHistory
    /\ Len(r.es.validation_errors) <= MaxErrors

(* What last holds after a call of method op that hands back r. *)
Recorded(in, op, r) ==
    IF op \in in.watch
    THEN [ op |-> op, outcome |-> r.outcome, error |-> r.error.kind ]
    ELSE Unwatched

(* canTransitionTo hands back {valid, reason} and leaves the aggregate. *)
Answer(s, v) ==
    [ es |-> s, outcome |-> IF v.valid THEN "valid" ELSE "invalid", error |-> v.reason ]

CanTransitionTo(in) ==
    \E t \in WorkflowGenerationState :
        LET r == Answer(es, canTransitionTo(es, t))
        IN  /\ Fits(in, r)
            /\ es' = r.es
            /\ last' = Recorded(in, "canTransitionTo", r)

TransitionTo(in) ==
    \E t \in WorkflowGenerationState :
        LET r == transitionTo(es, t)
        IN  /\ Fits(in, r)
            /\ es' = r.es
            /\ last' = Recorded(in, "transitionTo", r)

SetUserPrompt(in) ==
    \E p \in in.prompts :
        LET r == setUserPrompt(es, p)
        IN  /\ Fits(in, r)
            /\ es' = r.es
            /\ last' = Recorded(in, "setUserPrompt", r)

SetClarifyingQuestions(in) ==
    \E q \in in.questionLists :
        LET r == setClarifyingQuestions(es, q)
        IN  /\ Fits(in, r)
            /\ es' = r.es
            /\ last' = Recorded(in, "setClarifyingQuestions", r)

SetClarifyingAnswers(in) ==
    \E a \in in.answerMaps :
        LET r == setClarifyingAnswers(es, a)
        IN  /\ Fits(in, r)
            /\ es' = r.es
            /\ last' = Recorded(in, "setClarifyingAnswers", r)

ConfirmUnderstanding(in) ==
    \E u \in in.understandings :
        LET r == confirmUnderstanding(es, u)
        IN  /\ Fits(in, r)
            /\ es' = r.es
            /\ last' = Recorded(in, "confirmUnderstanding", r)

SetRequiredCredentials(in) ==
    \E c \in in.credentialLists :
        LET r == setRequiredCredentials(es, c)
        IN  /\ Fits(in, r)
            /\ es' = r.es
            /\ last' = Recorded(in, "setRequiredCredentials", r)

SetProvidedCredentials(in) ==
    \E c \in in.credentialMaps :
        LET r == setProvidedCredentials(es, c)
        IN  /\ Fits(in, r)
            /\ es' = r.es
            /\ last' = Recorded(in, "setProvidedCredentials", r)

StartBuilding(in) ==
    LET r == startBuilding(es)
    IN  /\ Fits(in, r)
        /\ es' = r.es
        /\ last' = Recorded(in, "startBuilding", r)

SetWorkflowBlueprint(in) ==
    \E b \in in.blueprints :
        LET r == setWorkflowBlueprint(es, b)
        IN  /\ Fits(in, r)
            /\ es' = r.es
            /\ last' = Recorded(in, "setWorkflowBlueprint", r)

AddValidationError(in) ==
    \E e \in in.validationErrors :
        LET r == addValidationError(es, e)
        IN  /\ Fits(in, r)
            /\ es' = r.es
            /\ last' = Recorded(in, "addValidationError", r)

ClearValidationErrors(in) ==
    LET r == clearValidationErrors(es)
    IN  /\ Fits(in, r)
        /\ es' = r.es
        /\ last' = Recorded(in, "clearValidationErrors", r)

RetryBuilding(in) ==
    LET r == retryBuilding(es)
    IN  /\ Fits(in, r)
        /\ es' = r.es
        /\ last' = Recorded(in, "retryBuilding", r)

MarkWorkflowReady(in) ==
    LET r == markWorkflowReady(es)
    IN  /\ Fits(in, r)
        /\ es' = r.es
        /\ last' = Recorded(in, "markWorkflowReady", r)

HandleError(in) ==
    \E m \in in.errorMessages :
        LET r == handleError(es, m)
        IN  /\ Fits(in, r)
            /\ es' = r.es
            /\ last' = Recorded(in, "handleError", r)

Reset(in) ==
    LET r == reset(es)
    IN  /\ Fits(in, r)
        /\ es' = r.es
        /\ last' = Recorded(in, "reset", r)

EnsureStateForBuilding(in) ==
    LET r == ensureStateForBuilding(es)
    IN  /\ Fits(in, r)
        /\ es' = r.es
        /\ last' = Recorded(in, "ensureStateForBuilding", r)

MoveToValidation(in) ==
    \E b \in in.blueprints :
        LET r == moveToValidation(es, b)
        IN  /\ Fits(in, r)
            /\ es' = r.es
            /\ last' = Recorded(in, "moveToValidation", r)

MoveToReady(in) ==
    LET r == moveToReady(es)
    IN  /\ Fits(in, r)
        /\ es' = r.es
        /\ last' = Recorded(in, "moveToReady", r)

(* isTerminalState hands back a boolean and leaves the aggregate. *)
IsTerminalState(in) ==
    LET r == [ es |-> es,
               outcome |-> IF isTerminalState(es) THEN "true" ELSE "false",
               error |-> NoError ]
    IN  /\ Fits(in, r)
        /\ es' = r.es
        /\ last' = Recorded(in, "isTerminalState", r)

(* A call of getExecutionState, and what the caller then does to the       *)
(* object it was handed.                                                   *)
GetExecutionState(in) ==
    \E m \in CopyMutations :
        LET r == Void(AfterMutation(es, getExecutionState(es), m))
        IN  /\ Fits(in, r)
            /\ es' = r.es
            /\ last' = Recorded(in, "getExecutionState", r)

(* The wizard maps one of its steps to a state, and the state back to a    *)
(* step: last holds the step it started from, the value that               *)
(* mapWizardStepToState handed back and the step it ends with.             *)
MapWizardStep ==
    \E step \in WizardSteps :
        /\ es' = es
        /\ last' = [ op |-> "mapWizardStepToState",
                     outcome |-> mapStateToWizardStep(mapWizardStepToState(step)),
                     error |-> Undefined,
                     step |-> step,
                     state |-> mapWizardStepToState(step) ]

(* Any method but transitionTo: the guarded operations, the orchestration  *)
(* helpers and reset, called with arguments of in.                         *)
GuardedCall(in) ==
    \/ CanTransitionTo(in)
    \/ SetUserPrompt(in)
    \/ SetClarifyingQuestions(in)
    \/ SetClarifyingAnswers(in)
    \/ ConfirmUnderstanding(in)
    \/ SetRequiredCredentials(in)
    \/ SetProvidedCredentials(in)
    \/ StartBuilding(in)
    \/ SetWorkflowBlueprint(in)
    \/ AddValidationError(in)
    \/ ClearValidationErrors(in)
    \/ RetryBuilding(in)
    \/ MarkWorkflowReady(in)
    \/ HandleError(in)
    \/ Reset(in)
    \/ EnsureStateForBuilding(in)
    \/ MoveToValidation(in)
    \/ MoveToReady(in)

(* Any public method, called with arguments of in. *)
AnyCall(in) ==
    \/ TransitionTo(in)
    \/ GuardedCall(in)

(* The methods that lead to startBuilding's guards and set what they read. *)
CredentialCall(in) ==
    \/ SetUserPrompt(in)
    \/ SetClarifyingQuestions(in)
    \/ ConfirmUnderstanding(in)
    \/ SetRequiredCredentials(in)
    \/ SetProvidedCredentials(in)
    \/ StartBuilding(in)
    \/ Reset(in)

(* The methods that change current_state or a field that a guard of        *)
(* ensureStateForBuilding reads: every method but canTransitionTo,         *)
(* setClarifyingAnswers, addValidationError and clearValidationErrors.     *)
BuildCall(in) ==
    \/ TransitionTo(in)
    \/ SetUserPrompt(in)
    \/ SetClarifyingQuestions(in)
    \/ ConfirmUnderstanding(in)
    \/ SetRequiredCredentials(in)
    \/ SetProvidedCredentials(in)
    \/ StartBuilding(in)
    \/ SetWorkflowBlueprint(in)
    \/ RetryBuilding(in)
    \/ MarkWorkflowReady(in)
    \/ HandleError(in)
    \/ Reset(in)
    \/ EnsureStateForBuilding(in)
    \/ MoveToValidation(in)
    \/ MoveToReady(in)

(* Callers that use every method, in any order.  The specifications differ *)
(* in the calls that last records.                                         *)
Next == AnyCall(Watching({ "reset" }))
Spec == Init /\ [][Next]_vars

NextTransition == AnyCall(Watching({ "transitionTo" }))
SpecTransition == Init /\ [][NextTransition]_vars

NextQuery == AnyCall(Watching({ "canTransitionTo" }))
SpecQuery == Init /\ [][NextQuery]_vars

NextError == AnyCall(Watching({ "handleError" }))
SpecError == Init /\ [][NextError]_vars

NextRetry == AnyCall(Watching({ "retryBuilding" }))
SpecRetry == Init /\ [][NextRetry]_vars

(* Callers that never call transitionTo themselves. *)
NextGuarded == GuardedCall(Watching({ "startBuilding" }))
SpecGuarded == Init /\ [][NextGuarded]_vars

(* Callers that set any credentials and start building. *)
NextCredentials == CredentialCall(WatchingCredentials({ "startBuilding" }))
SpecCredentials == Init /\ [][NextCredentials]_vars

(* Callers that pass any blueprint and mark the workflow ready. *)
NextReady == AnyCall(WatchingBlueprints({ "markWorkflowReady" }))
SpecReady == Init /\ [][NextReady]_vars

(* Callers whose calls of transitionTo and of reset are recorded. *)
NextTerminal == AnyCall(Watching({ "transitionTo", "reset" }))
SpecTerminal == Init /\ [][NextTerminal]_vars

(* Callers that let ensureStateForBuilding drive the machine. *)
NextEnsure == BuildCall(WatchingLong({ "ensureStateForBuilding" }))
SpecEnsure == Init /\ [][NextEnsure]_vars

(* Callers that change the object getExecutionState hands them. *)
NextCopy ==
    \/ GuardedCall(Watching({ "getExecutionState" }))
    \/ GetExecutionState(Watching({ "getExecutionState" }))
SpecCopy == Init /\ [][NextCopy]_vars

(* A wizard that maps its steps while the manager is driven to             *)
(* WorkflowBuilding.                                                       *)
NextWizard ==
    \/ CredentialCall(Watching({ }))
    \/ MapWizardStep
SpecWizard == Init /\ [][NextWizard]_vars

(* Callers that never call transitionTo themselves and pass any prompt    *)
(* and any questions.                                                      *)
NextPrompt ==
    GuardedCall(WatchingPrompts({ "reset", "setUserPrompt",
                                  "setClarifyingQuestions" }))
SpecPrompt == Init /\ [][NextPrompt]_vars

(* Callers whose writes of the data fields are recorded, and who answer in *)
(* rounds.                                                                 *)
NextData ==
    GuardedCall(WatchingAnswers({ "setClarifyingAnswers", "setProvidedCredentials",
                                  "addValidationError", "clearValidationErrors",
                                  "confirmUnderstanding",
                                  "setRequiredCredentials" }))
SpecData == Init /\ [][NextData]_vars

(* Callers that ask whether the machine has come to an end. *)
NextTerminalQuery ==
    \/ AnyCall(Watching({ "isTerminalState" }))
    \/ IsTerminalState(Watching({ "isTerminalState" }))
SpecTerminalQuery == Init /\ [][NextTerminalQuery]_vars

(* Callers that never call transitionTo themselves and pass any blueprint: *)
(* their writes of the blueprint and their calls of the two helpers that   *)
(* follow building are recorded.                                           *)
NextBlueprint ==
    GuardedCall(WatchingBlueprints({ "setWorkflowBlueprint", "moveToValidation",
                                 "moveToReady" }))
SpecBlueprint == Init /\ [][NextBlueprint]_vars

-----------------------------------------------------------------------------
(* Properties *)

Last(seq) == seq[Len(seq)]

(* The successors the transition table lists under state s. *)
ListedUnder(s) == { ALLOWED_TRANSITIONS[s][i] : i \in 1..Len(ALLOWED_TRANSITIONS[s]) }

(* C1: every two consecutive entries of state_history are a legal edge of  *)
(* the transition table, after any sequence of calls of the public methods *)
(* on a fresh manager.                                                     *)
C1_HistoryFollowsTable ==
    \A i \in 1..(Len(es.state_history) - 1) :
        es.state_history[i + 1] \in ListedUnder(es.state_history[i])

(* A run of the whole pipeline, with credential collection. *)
C1_Witness ==
    es.state_history =
        << STATE_0_IDLE, STATE_1_USER_PROMPT_RECEIVED, STATE_2_CLARIFICATION_ACTIVE,
           STATE_3_UNDERSTANDING_CONFIRMED, STATE_4_CREDENTIAL_COLLECTION,
           STATE_5_WORKFLOW_BUILDING, STATE_6_WORKFLOW_VALIDATION >>

(* C2: in every state S, canTransitionTo(T) is valid exactly for the T the *)
(* table lists under S, for each of the 9 candidates T; and a call of      *)
(* canTransitionTo changes no field of the aggregate.                      *)
C2_CanTransitionToIsTheTable ==
    /\ [](\A t \in WorkflowGenerationState :
            canTransitionTo(es, t).valid <=> t \in ListedUnder(es.current_state))
    /\ [][last'.op = "canTransitionTo" => es' = es]_vars

(* canTransitionTo has refused a candidate in the terminal state. *)
C2_Witness ==
    /\ last.op = "canTransitionTo"
    /\ last.outcome = "invalid"
    /\ es.current_state = STATE_7_WORKFLOW_READY

(* C3: transitionTo(T) to a legal successor T of current_state appends one *)
(* entry with state T, sets current_state to T, changes nothing else and   *)
(* returns success; to any other T it returns a failure, does not throw,   *)
(* and leaves the aggregate as it was.                                     *)
C3_TransitionToIsAtomic ==
    \A t \in WorkflowGenerationState :
        LET r == transitionTo(es, t)
        IN  IF t \in ListedUnder(es.current_state)
            THEN /\ r.outcome = "success"
                 /\ r.es = [ es EXCEPT !.state_history = es.state_history \o << t >>,
                                       !.current_state = t ]
                 /\ Len(r.es.state_history) = Len(es.state_history) + 1
            ELSE /\ r.outcome = "failure"
                 /\ r.es = es

(* transitionTo has been refused after the machine has moved. *)
C3_Witness ==
    /\ last.op = "transitionTo"
    /\ last.outcome = "failure"
    /\ last.error = "Invalid transition"
    /\ Len(es.state_history) > 1

(* C4: state_history is never empty, its first entry is Idle, and          *)
(* current_state is the state of its last entry.                           *)
C4_HistoryShape ==
    /\ Len(es.state_history) >= 1
    /\ es.state_history[1] = STATE_0_IDLE
    /\ es.current_state = Last(es.state_history)

(* reset has been called. *)
C4_Witness ==
    /\ last.op = "reset"
    /\ es.state_history = << STATE_0_IDLE >>
    /\ es.current_state = STATE_0_IDLE

(* C7: retry_count is between 0 and 3, and no call but reset lowers it. *)
C7_RetryCountBounded ==
    /\ [](es.retry_count \in 0..MaxRetryCount)
    /\ [][last'.op # "reset" => es'.retry_count >= es.retry_count]_vars

(* The retry budget is used up. *)
C7_Witness ==
    /\ es.retry_count = MaxRetryCount
    /\ es.current_state = STATE_5_WORKFLOW_BUILDING

(* C5: handleError(message), called in one of the 8 states that are not    *)
(* ErrorHandling, records last_error, moves to ErrorHandling and appends   *)
(* one entry to state_history.                                             *)
C5_HandleErrorFromAnyState ==
    [][(last'.op = "handleError" /\ es.current_state # STATE_ERROR_HANDLING)
         => /\ es'.last_error \in ErrorMessages
            /\ es'.current_state = STATE_ERROR_HANDLING
            /\ es'.state_history = Append(es.state_history, STATE_ERROR_HANDLING)]_vars

(* A call that is rejected: it returns a failure or throws, or it is a     *)
(* call of setWorkflowBlueprint or handleError whose transition the table  *)
(* refuses.                                                                *)
Rejected ==
    \/ last'.outcome \in { "failure", "throws" }
    \/ /\ last'.op = "setWorkflowBlueprint"
       /\ ~canTransitionTo(es, STATE_6_WORKFLOW_VALIDATION).valid
    \/ /\ last'.op = "handleError"
       /\ ~canTransitionTo(es, STATE_ERROR_HANDLING).valid

(* C6: a call that is rejected leaves the whole aggregate as it was. *)
C6_NoPartialMutation == [][Rejected => es' = es]_vars

(* Four calls of retryBuilding, one after the other, from aggregate s:     *)
(* what each hands back.                                                   *)
FourRetries(s) ==
    LET r1 == retryBuilding(s)
        r2 == retryBuilding(r1.es)
        r3 == retryBuilding(r2.es)
        r4 == retryBuilding(r3.es)
    IN  << r1, r2, r3, r4 >>

RetryExhausted == "Maximum retry count (3) reached. Moving to error handling."

(* What every one of the first three retries leaves, k being its number. *)
AfterRetry(r, k) ==
    /\ r.es.retry_count = k
    /\ DOMAIN r.es.workflow_blueprint = {}
    /\ r.es.validation_errors = << >>
    /\ r.es.current_state = STATE_5_WORKFLOW_BUILDING

RetryEdges(h) ==
    Cardinality({ i \in 1..(Len(h) - 1) :
                    h[i] = STATE_6_WORKFLOW_VALIDATION
                    /\ h[i + 1] = STATE_5_WORKFLOW_BUILDING })

(* C9: state_history holds at most 3 transitions from WorkflowValidation   *)
(* back to WorkflowBuilding, and every call that adds one raises           *)
(* retry_count by one.                                                     *)
C9_RetryBudgetBoundsCycles ==
    /\ [](RetryEdges(es.state_history) <= MaxRetryCount)
    /\ [][RetryEdges(es'.state_history) > RetryEdges(es.state_history)
            => es'.retry_count = es.retry_count + 1]_vars

MissingCredentials == "Cannot build workflow: Missing required credentials"

(* What startBuilding hands back when the required names that pass Absent  *)
(* are the ones that fail its first guard: with such a name, the failure   *)
(* that lists these names in the order of credentials_required, whatever   *)
(* final_understanding is, and the aggregate as it was; with none, not     *)
(* this failure.                                                           *)
CredentialGuard(Absent(_)) ==
    LET r == startBuilding(es)
        absent == SelectSeq(es.credentials_required, Absent)
    IN  IF absent # << >>
        THEN /\ r.outcome = "failure"
             /\ r.error = Error(MissingCredentials, absent)
             /\ r.es = es
        ELSE r.error.kind # MissingCredentials

C11_BuildingHasUnderstanding ==
    es.current_state = STATE_5_WORKFLOW_BUILDING => Truthy(es.final_understanding)

NoBlueprint == "Cannot mark workflow as ready: No workflow blueprint"

(* Whether workflow_blueprint.nodes of aggregate s is absent or empty. *)
NoNodes(s) ==
    \/ "nodes" \notin DOMAIN s.workflow_blueprint
    \/ Len(s.workflow_blueprint.nodes) = 0

(* C12: markWorkflowReady fails when validation_errors is not empty, fails *)
(* when workflow_blueprint.nodes is absent or empty, and succeeds only in  *)
(* WorkflowValidation with neither, where it moves to WorkflowReady; a     *)
(* failure leaves current_state and state_history as they were.            *)
C12_MarkWorkflowReadyGuards ==
    LET r == markWorkflowReady(es)
    IN  /\ r.outcome \in { "success", "failure" }
        /\ Len(es.validation_errors) > 0 => r.outcome = "failure"
        /\ NoNodes(es) => r.outcome = "failure"
        /\ r.outcome = "success" <=>
               /\ es.current_state = STATE_6_WORKFLOW_VALIDATION
               /\ Len(es.validation_errors) = 0
               /\ ~NoNodes(es)
        /\ r.outcome = "success" =>
               /\ r.es.current_state = STATE_7_WORKFLOW_READY
               /\ r.es.state_history =
                      Append(es.state_history, STATE_7_WORKFLOW_READY)
        /\ r.outcome = "failure" =>
               /\ r.es.current_state = es.current_state
               /\ r.es.state_history = es.state_history

(* markWorkflowReady has failed in WorkflowValidation for a blueprint with *)
(* an empty list of nodes, without validation errors.                      *)
C12_Witness ==
    /\ last.op = "markWorkflowReady"
    /\ last.outcome = "failure"
    /\ last.error = NoBlueprint
    /\ es.current_state = STATE_6_WORKFLOW_VALIDATION
    /\ Len(es.validation_errors) = 0
    /\ "nodes" \in DOMAIN es.workflow_blueprint
    /\ Len(es.workflow_blueprint.nodes) = 0

(* C13: once current_state is WorkflowReady, no call but a call of reset   *)
(* changes current_state or appends to state_history: neither transitionTo *)
(* to any of the 9 states, nor any guarded operation or orchestration      *)
(* helper.                                                                 *)
C13_ReadyIsTerminal ==
    [][(es.current_state = STATE_7_WORKFLOW_READY /\ last'.op # "reset")
         => /\ es'.current_state = STATE_7_WORKFLOW_READY
            /\ es'.state_history = es.state_history]_vars

(* transitionTo has been refused in WorkflowReady. *)
C13_Witness ==
    /\ last.op = "transitionTo"
    /\ last.outcome = "failure"
    /\ es.current_state = STATE_7_WORKFLOW_READY
    /\ Last(es.state_history) = STATE_7_WORKFLOW_READY

(* C14: reset, called in any reachable state, returns without throwing and *)
(* leaves the aggregate of a fresh manager: Idle, a history of the one     *)
(* entry Idle, retry_count 0, no last_error and every data field empty.    *)
C14_ResetReinitializes ==
    /\ [](LET r == reset(es)
          IN  /\ r.outcome = "void"
              /\ r.es = initializeState(FALSE)
              /\ r.es.current_state = STATE_0_IDLE
              /\ r.es.state_history = << STATE_0_IDLE >>
              /\ r.es.retry_count = 0
              /\ r.es.last_error = Undefined
              /\ r.es.user_prompt = "" /\ r.es.final_understanding = ""
              /\ Len(r.es.clarifying_questions) = 0
              /\ Len(r.es.credentials_required) = 0
              /\ Len(r.es.validation_errors) = 0
              /\ DOMAIN r.es.clarifying_answers = {}
              /\ DOMAIN r.es.credentials_provided = {}
              /\ DOMAIN r.es.workflow_blueprint = {})
    /\ [][last'.op = "reset" => es' = initializeState(FALSE)]_vars

(* reset has been called and has left no trace of an earlier error. *)
C14_Witness ==
    /\ last.op = "reset"
    /\ last.outcome = "void"
    /\ es = initializeState(FALSE)
    /\ es.last_error = Undefined

(* Whether startBuilding's filter finds no required credential missing in  *)
(* aggregate s.                                                            *)
EveryCredentialProvided(s) ==
    \A i \in 1..Len(s.credentials_required) :
        ~IsMissingCredential(s.credentials_provided, s.credentials_required[i])

(* C15: ensureStateForBuilding, called in ClarificationActive with a       *)
(* non-empty final_understanding and every required credential provided,   *)
(* succeeds, ends in WorkflowBuilding and has appended to state_history     *)
(* UnderstandingConfirmed, then CredentialCollection exactly when          *)
(* credentials_required is not empty, then WorkflowBuilding.               *)
C15_EnsureDrivesToBuilding ==
    ( /\ es.current_state = STATE_2_CLARIFICATION_ACTIVE
      /\ Truthy(es.final_understanding)
      /\ EveryCredentialProvided(es) )
        => LET r == ensureStateForBuilding(es)
           IN  /\ r.outcome = "success"
               /\ r.es.current_state = STATE_5_WORKFLOW_BUILDING
               /\ r.es.state_history =
                      es.state_history \o
                      ( IF Len(es.credentials_required) > 0
                        THEN << STATE_3_UNDERSTANDING_CONFIRMED,
                                STATE_4_CREDENTIAL_COLLECTION,
                                STATE_5_WORKFLOW_BUILDING >>
                        ELSE << STATE_3_UNDERSTANDING_CONFIRMED,
                                STATE_5_WORKFLOW_BUILDING >> )

(* ensureStateForBuilding has succeeded with a required credential, after  *)
(* the callers went back from UnderstandingConfirmed to                    *)
(* ClarificationActive.                                                    *)
C15_Witness ==
    /\ last.op = "ensureStateForBuilding"
    /\ last.outcome = "success"
    /\ Len(es.credentials_required) > 0
    /\ es.state_history =
           << STATE_0_IDLE, STATE_1_USER_PROMPT_RECEIVED,
              STATE_2_CLARIFICATION_ACTIVE, STATE_3_UNDERSTANDING_CONFIRMED,
              STATE_2_CLARIFICATION_ACTIVE, STATE_3_UNDERSTANDING_CONFIRMED,
              STATE_4_CREDENTIAL_COLLECTION, STATE_5_WORKFLOW_BUILDING >>

(* C16: ensureStateForBuilding fails in Idle and in PromptReceived,        *)
(* succeeds in WorkflowBuilding, WorkflowValidation and WorkflowReady, and *)
(* changes no field of the aggregate in these five states.                 *)
C16_EnsureWithoutEffect ==
    LET r == ensureStateForBuilding(es)
    IN  /\ es.current_state \in { STATE_0_IDLE, STATE_1_USER_PROMPT_RECEIVED }
               => r.outcome = "failure" /\ r.es = es
        /\ es.current_state \in { STATE_5_WORKFLOW_BUILDING,
                                  STATE_6_WORKFLOW_VALIDATION,
                                  STATE_7_WORKFLOW_READY }
               => /\ r.outcome = "success"
                  /\ r.es = es
                  /\ Len(r.es.state_history) = Len(es.state_history)

(* ensureStateForBuilding has reported success in WorkflowValidation. *)
C16_Witness ==
    /\ last.op = "ensureStateForBuilding"
    /\ last.outcome = "success"
    /\ es.current_state = STATE_6_WORKFLOW_VALIDATION

(* C17: a second call of ensureStateForBuilding right after a first one    *)
(* leaves the aggregate of the first and hands back its outcome.           *)
C17_EnsureIsIdempotent ==
    LET r1 == ensureStateForBuilding(es)
        r2 == ensureStateForBuilding(r1.es)
    IN  /\ r2.es = r1.es
        /\ r2.outcome = r1.outcome

(* ensureStateForBuilding has failed in CredentialCollection for a missing *)
(* credential, and a second call would fail there again.                   *)
C17_Witness ==
    /\ last.op = "ensureStateForBuilding"
    /\ last.outcome = "failure"
    /\ last.error = MissingCredentials
    /\ es.current_state = STATE_4_CREDENTIAL_COLLECTION
    /\ ensureStateForBuilding(es).outcome = "failure"

(* C18: nothing a caller does to the object that getExecutionState handed  *)
(* back, to its state_history, validation_errors, credentials or blueprint *)
(* included, changes what getCurrentState, getStateHistory and             *)
(* getExecutionState report afterwards.                                    *)
C18_CopyIsIndependent ==
    [][last'.op = "getExecutionState"
         => /\ getCurrentState(es') = getCurrentState(es)
            /\ getStateHistory(es') = getStateHistory(es)
            /\ getExecutionState(es') = getExecutionState(es)]_vars

(* The step that mapping step to a state and the state back to a step      *)
(* gives.                                                                  *)
RoundTrip(step) == mapStateToWizardStep(mapWizardStepToState(step))

(* C19: mapStateToWizardStep(mapWizardStepToState(s)) is s for the steps   *)
(* idle, building and complete, and is questioning for the steps           *)
(* questioning and refining.                                               *)
C19_WizardRoundTrip ==
    /\ \A s \in { "idle", "building", "complete" } : RoundTrip(s) = s
    /\ \A s \in { "questioning", "refining" } : RoundTrip(s) = "questioning"
    /\ last.op = "mapWizardStepToState" =>
           /\ last.step \in { "idle", "building", "complete" }
                  => last.outcome = last.step
           /\ last.step \in { "questioning", "refining" }
                  => last.outcome = "questioning"

(* The wizard has mapped refining to a state and back. *)
C19_Witness ==
    /\ last.op = "mapWizardStepToState"
    /\ last.step = "refining"
    /\ last.outcome = "questioning"

(* The states under which the transition table lists t. *)
ListedAfter(t) == { s \in WorkflowGenerationState : t \in ListedUnder(s) }

NonErrorStates == WorkflowGenerationState \ { STATE_ERROR_HANDLING }

(* The edges of the linear pipeline. *)
PipelineEdges ==
    { << STATE_0_IDLE, STATE_1_USER_PROMPT_RECEIVED >>,
      << STATE_1_USER_PROMPT_RECEIVED, STATE_2_CLARIFICATION_ACTIVE >>,
      << STATE_2_CLARIFICATION_ACTIVE, STATE_3_UNDERSTANDING_CONFIRMED >>,
      << STATE_3_UNDERSTANDING_CONFIRMED, STATE_4_CREDENTIAL_COLLECTION >>,
      << STATE_4_CREDENTIAL_COLLECTION, STATE_5_WORKFLOW_BUILDING >>,
      << STATE_5_WORKFLOW_BUILDING, STATE_6_WORKFLOW_VALIDATION >>,
      << STATE_6_WORKFLOW_VALIDATION, STATE_7_WORKFLOW_READY >> }

(* The self-loop, the shortcut, the backward edge and the retry edge. *)
DeviationEdges ==
    { << STATE_2_CLARIFICATION_ACTIVE, STATE_2_CLARIFICATION_ACTIVE >>,
      << STATE_3_UNDERSTANDING_CONFIRMED, STATE_5_WORKFLOW_BUILDING >>,
      << STATE_5_WORKFLOW_BUILDING, STATE_4_CREDENTIAL_COLLECTION >>,
      << STATE_6_WORKFLOW_VALIDATION, STATE_5_WORKFLOW_BUILDING >> }

(* The edge back from UnderstandingConfirmed to edit the answers. *)
BackToEditEdge ==
    << STATE_3_UNDERSTANDING_CONFIRMED, STATE_2_CLARIFICATION_ACTIVE >>

(* Whether, in a state that is not ErrorHandling, the targets other than   *)
(* ErrorHandling that the table lists under current_state, and that        *)
(* canTransitionTo accepts, are the ones edges gives.                      *)
NonErrorEdgesAre(edges) ==
    es.current_state \in NonErrorStates =>
        \A t \in NonErrorStates :
            /\ t \in ListedUnder(es.current_state)
                   <=> << es.current_state, t >> \in edges
            /\ canTransitionTo(es, t).valid
                   <=> << es.current_state, t >> \in edges

(* C21, as claimed: between the eight states that are not ErrorHandling,   *)
(* the legal edges are the seven edges of the linear pipeline, the         *)
(* self-loop on ClarificationActive, the shortcut from                     *)
(* UnderstandingConfirmed to WorkflowBuilding, the backward edge from      *)
(* WorkflowBuilding to CredentialCollection and the retry edge from        *)
(* WorkflowValidation to WorkflowBuilding, and no other.                   *)
C21_ElevenEdges == NonErrorEdgesAre(PipelineEdges \cup DeviationEdges)

(* C21, amended: they are these eleven edges and the edge from             *)
(* UnderstandingConfirmed back to ClarificationActive, and no other.       *)
C21_TwelveEdges ==
    NonErrorEdgesAre(PipelineEdges \cup DeviationEdges \cup { BackToEditEdge })

(* transitionTo has taken the edge from UnderstandingConfirmed back to     *)
(* ClarificationActive.                                                    *)
C21_Witness ==
    /\ last.op = "transitionTo"
    /\ last.outcome = "success"
    /\ Len(es.state_history) > 1
    /\ es.state_history[Len(es.state_history) - 1] = STATE_3_UNDERSTANDING_CONFIRMED
    /\ es.current_state = STATE_2_CLARIFICATION_ACTIVE

(* C22: retryBuilding succeeds only in WorkflowValidation with retry_count *)
(* below 3; a call that succeeds raises retry_count by one, leaves         *)
(* workflow_blueprint and validation_errors empty and moves from           *)
(* WorkflowValidation to WorkflowBuilding; a call in any other state makes *)
(* no transition and leaves retry_count as it was.                         *)
C22_RetryOnlyFromValidation ==
    LET r == retryBuilding(es)
    IN  /\ r.outcome = "success" =>
               /\ es.current_state = STATE_6_WORKFLOW_VALIDATION
               /\ es.retry_count < MaxRetryCount
               /\ AfterRetry(r, es.retry_count + 1)
               /\ r.es.state_history =
                      Append(es.state_history, STATE_5_WORKFLOW_BUILDING)
        /\ es.current_state # STATE_6_WORKFLOW_VALIDATION =>
               /\ r.es.current_state = es.current_state
               /\ r.es.state_history = es.state_history
               /\ r.es.retry_count = es.retry_count

(* C23: retryBuilding, called with retry_count 3 in any state, hands back  *)
(* the failure of the exhausted budget, changes no field of the aggregate  *)
(* and does not move to ErrorHandling.                                     *)
C23_ExhaustedRetryChangesNothing ==
    es.retry_count = MaxRetryCount =>
        LET r == retryBuilding(es)
        IN  /\ r.outcome = "failure"
            /\ r.error.kind = RetryExhausted
            /\ r.es = es
            /\ r.es.current_state = es.current_state

(* retryBuilding has been refused for the exhausted budget in              *)
(* WorkflowValidation, where handleError could move to ErrorHandling.      *)
C23_Witness ==
    /\ last.op = "retryBuilding"
    /\ last.outcome = "failure"
    /\ last.error = RetryExhausted
    /\ es.retry_count = MaxRetryCount
    /\ es.current_state = STATE_6_WORKFLOW_VALIDATION

OnlyFromIdle == "Can only set user prompt from IDLE state"

(* C24: setUserPrompt(p) in Idle stores p as user_prompt and moves to      *)
(* PromptReceived with one more entry of state_history; in any other state *)
(* it throws, hands back no failure value and changes no field of the      *)
(* aggregate.                                                              *)
C24_SetUserPromptFromIdleOnly ==
    \A p \in AllPrompts :
        LET r == setUserPrompt(es, p)
        IN  IF es.current_state = STATE_0_IDLE
            THEN /\ r.outcome = "void"
                 /\ r.es = [ es EXCEPT
                               !.user_prompt = p,
                               !.current_state = STATE_1_USER_PROMPT_RECEIVED,
                               !.state_history =
                                   Append(@, STATE_1_USER_PROMPT_RECEIVED) ]
            ELSE /\ r.outcome = "throws"
                 /\ r.error.kind = OnlyFromIdle
                 /\ r.es = es

(* setUserPrompt has thrown in WorkflowValidation. *)
C24_Witness ==
    /\ last.op = "setUserPrompt"
    /\ last.outcome = "throws"
    /\ last.error = OnlyFromIdle
    /\ es.current_state = STATE_6_WORKFLOW_VALIDATION
    /\ es.user_prompt \in AllPrompts

(* C25: callers that never call transitionTo themselves are in Idle only   *)
(* on a fresh or reset manager, and outside Idle, that is after a          *)
(* setUserPrompt that went through, no call but reset changes user_prompt. *)
C25_UserPromptSetOnce ==
    /\ [](es.current_state = STATE_0_IDLE
             => es.state_history = << STATE_0_IDLE >> /\ es.user_prompt = "")
    /\ [](es.current_state # STATE_0_IDLE => es.user_prompt \in AllPrompts)
    /\ [][(es.current_state # STATE_0_IDLE /\ last'.op # "reset")
             => es'.user_prompt = es.user_prompt]_vars

(* A second setUserPrompt has been tried, with the other prompt, and the   *)
(* first prompt is still there.                                            *)
C25_Witness ==
    /\ last.op = "setUserPrompt"
    /\ last.outcome = "throws"
    /\ es.user_prompt = "send a mail"
    /\ es.current_state = STATE_1_USER_PROMPT_RECEIVED

(* C26: setClarifyingQuestions(q) replaces clarifying_questions by q in    *)
(* every state; in PromptReceived it also moves to ClarificationActive     *)
(* with one more entry of state_history, and in every other state it       *)
(* changes nothing else.                                                   *)
C26_SetClarifyingQuestions ==
    \A q \in AllQuestionLists :
        LET r == setClarifyingQuestions(es, q)
        IN  /\ r.outcome = "void"
            /\ r.es.clarifying_questions = q
            /\ IF es.current_state = STATE_1_USER_PROMPT_RECEIVED
               THEN r.es = [ es EXCEPT
                               !.clarifying_questions = q,
                               !.current_state = STATE_2_CLARIFICATION_ACTIVE,
                               !.state_history =
                                   Append(@, STATE_2_CLARIFICATION_ACTIVE) ]
               ELSE r.es = [ es EXCEPT !.clarifying_questions = q ]

(* setClarifyingQuestions has been called in WorkflowValidation, where it  *)
(* makes no transition.                                                    *)
C26_Witness ==
    /\ last.op = "setClarifyingQuestions"
    /\ es.clarifying_questions = << "q2" >>
    /\ es.current_state = STATE_6_WORKFLOW_VALIDATION

(* Whether aggregate s2 is aggregate s1 but for the fields in fields. *)
SameBut(s1, s2, fields) ==
    /\ DOMAIN s2 = DOMAIN s1
    /\ \A f \in DOMAIN s1 \ fields : s2[f] = s1[f]

(* C27: setClarifyingAnswers, setProvidedCredentials, addValidationError   *)
(* and clearValidationErrors, in any state, change neither current_state   *)
(* nor state_history nor retry_count, and change no field but their own:   *)
(* clarifying_answers, credentials_provided, validation_errors.            *)
C27_PureDataOperations ==
    /\ \A a \in AllAnswerMaps :
           LET r == setClarifyingAnswers(es, a)
           IN  r.outcome = "void" /\ SameBut(es, r.es, { "clarifying_answers" })
    /\ \A c \in CredentialMaps :
           LET r == setProvidedCredentials(es, c)
           IN  r.outcome = "void" /\ SameBut(es, r.es, { "credentials_provided" })
    /\ \A e \in ValidationErrors :
           LET r == addValidationError(es, e)
           IN  /\ r.outcome = "void"
               /\ SameBut(es, r.es, { "validation_errors" })
               /\ r.es.validation_errors = Append(es.validation_errors, e)
    /\ LET r == clearValidationErrors(es)
       IN  /\ r.outcome = "void"
           /\ SameBut(es, r.es, { "validation_errors" })
           /\ Len(r.es.validation_errors) = 0
    /\ \A f \in { "current_state", "state_history", "retry_count" } :
           /\ \A a \in AllAnswerMaps : setClarifyingAnswers(es, a).es[f] = es[f]
           /\ \A c \in CredentialMaps : setProvidedCredentials(es, c).es[f] = es[f]
           /\ \A e \in ValidationErrors : addValidationError(es, e).es[f] = es[f]
           /\ clearValidationErrors(es).es[f] = es[f]

(* clearValidationErrors has been called in WorkflowBuilding after a       *)
(* retry, and the retry is still counted.                                  *)
C27_Witness ==
    /\ last.op = "clearValidationErrors"
    /\ es.current_state = STATE_5_WORKFLOW_BUILDING
    /\ es.retry_count = 1
    /\ Len(es.validation_errors) = 0

(* C28: the answers accumulate: setClarifyingAnswers(b), called when       *)
(* clarifying_answers holds the answers of earlier rounds, leaves every    *)
(* earlier pair whose id b does not answer, together with all pairs of b.  *)
C28_AnswersAccumulate ==
    \A b \in AllAnswerMaps :
        LET before == es.clarifying_answers
            after == setClarifyingAnswers(es, b).es.clarifying_answers
        IN  /\ \A id \in DOMAIN b : id \in DOMAIN after /\ after[id] = b[id]
            /\ \A id \in DOMAIN before \ DOMAIN b :
                   id \in DOMAIN after /\ after[id] = before[id]

CanOnlyConfirm == "Can only confirm understanding from CLARIFICATION_ACTIVE state"

(* C29: confirmUnderstanding(t) in ClarificationActive stores t as         *)
(* final_understanding, moves to UnderstandingConfirmed and succeeds; in   *)
(* any other state it fails and leaves final_understanding, current_state  *)
(* and state_history as they were.                                         *)
C29_ConfirmUnderstanding ==
    \A u \in Understandings :
        LET r == confirmUnderstanding(es, u)
        IN  IF es.current_state = STATE_2_CLARIFICATION_ACTIVE
            THEN /\ r.outcome = "success"
                 /\ r.es = [ es EXCEPT
                               !.final_understanding = u,
                               !.current_state = STATE_3_UNDERSTANDING_CONFIRMED,
                               !.state_history =
                                   Append(@, STATE_3_UNDERSTANDING_CONFIRMED) ]
            ELSE /\ r.outcome = "failure"
                 /\ r.error.kind = CanOnlyConfirm
                 /\ r.es.final_understanding = es.final_understanding
                 /\ r.es.current_state = es.current_state
                 /\ r.es.state_history = es.state_history

(* confirmUnderstanding has been refused in UnderstandingConfirmed, and    *)
(* the understanding confirmed before is still there.                      *)
C29_Witness ==
    /\ last.op = "confirmUnderstanding"
    /\ last.outcome = "failure"
    /\ last.error = CanOnlyConfirm
    /\ es.current_state = STATE_3_UNDERSTANDING_CONFIRMED
    /\ es.final_understanding = "understood"

(* C30: setRequiredCredentials(list) replaces credentials_required by list *)
(* in every state; in UnderstandingConfirmed and in WorkflowBuilding it    *)
(* also moves to CredentialCollection with one more entry of               *)
(* state_history, and in every other state it changes nothing else.        *)
C30_SetRequiredCredentials ==
    \A c \in CredentialLists :
        LET r == setRequiredCredentials(es, c)
        IN  /\ r.outcome = "void"
            /\ r.es.credentials_required = c
            /\ IF es.current_state \in { STATE_3_UNDERSTANDING_CONFIRMED,
                                         STATE_5_WORKFLOW_BUILDING }
               THEN r.es = [ es EXCEPT
                               !.credentials_required = c,
                               !.current_state = STATE_4_CREDENTIAL_COLLECTION,
                               !.state_history =
                                   Append(@, STATE_4_CREDENTIAL_COLLECTION) ]
               ELSE r.es = [ es EXCEPT !.credentials_required = c ]

(* setRequiredCredentials has led back from WorkflowBuilding to            *)
(* CredentialCollection.                                                   *)
C30_Witness ==
    /\ last.op = "setRequiredCredentials"
    /\ es.credentials_required = << "google" >>
    /\ es.current_state = STATE_4_CREDENTIAL_COLLECTION
    /\ Len(es.state_history) > 1
    /\ es.state_history[Len(es.state_history) - 1] = STATE_5_WORKFLOW_BUILDING

(* C31: setWorkflowBlueprint(b), called in WorkflowBuilding, stores b and  *)
(* moves to WorkflowValidation; called in a state under which the table    *)
(* does not list WorkflowValidation, it hands the rejection back to its    *)
(* caller (a failure or an exception) and leaves current_state and         *)
(* state_history as they were.                                             *)
C31_SetWorkflowBlueprintReportsRejection ==
    [][last'.op = "setWorkflowBlueprint"
         => /\ es.current_state = STATE_5_WORKFLOW_BUILDING
                => /\ es'.workflow_blueprint \in AllBlueprints
                   /\ es'.current_state = STATE_6_WORKFLOW_VALIDATION
            /\ STATE_6_WORKFLOW_VALIDATION \notin ListedUnder(es.current_state)
                => /\ last'.outcome \in { "failure", "throws" }
                   /\ es'.current_state = es.current_state
                   /\ es'.state_history = es.state_history]_vars

(* C32: moveToValidation(b), whenever it hands back success, leaves        *)
(* current_state WorkflowValidation and workflow_blueprint b; called in    *)
(* WorkflowBuilding it succeeds and appends exactly one entry to           *)
(* state_history; called in any other state it first runs                  *)
(* ensureStateForBuilding and, when that fails, hands back that failure    *)
(* and does not write b.                                                   *)
C32_MoveToValidation ==
    \A b \in AllBlueprints :
        LET r == moveToValidation(es, b)
            buildResult == ensureStateForBuilding(es)
        IN  /\ r.outcome = "success" =>
                   /\ r.es.current_state = STATE_6_WORKFLOW_VALIDATION
                   /\ r.es.workflow_blueprint = b
            /\ es.current_state = STATE_5_WORKFLOW_BUILDING =>
                   /\ r.outcome = "success"
                   /\ r.es.state_history =
                          Append(es.state_history, STATE_6_WORKFLOW_VALIDATION)
            /\ es.current_state # STATE_5_WORKFLOW_BUILDING =>
                   IF buildResult.outcome # "success"
                   THEN /\ r = buildResult
                        /\ r.es.workflow_blueprint = es.workflow_blueprint
                   ELSE r = transitionTo([ buildResult.es EXCEPT
                                             !.workflow_blueprint = b ],
                                         STATE_6_WORKFLOW_VALIDATION)

(* moveToValidation has been called in CredentialCollection with a         *)
(* required credential missing: it has handed back the failure of          *)
(* ensureStateForBuilding and no blueprint is written.                     *)
C32_Witness ==
    /\ last.op = "moveToValidation"
    /\ last.outcome = "failure"
    /\ last.error = MissingCredentials
    /\ es.current_state = STATE_4_CREDENTIAL_COLLECTION
    /\ es.workflow_blueprint = EmptyObject

CannotMarkReady == "Cannot mark ready from state"

(* C33: moveToReady, called in a state other than WorkflowBuilding and     *)
(* WorkflowValidation, fails and changes nothing; whenever it hands back   *)
(* success, current_state is WorkflowReady, validation_errors is empty,    *)
(* workflow_blueprint.nodes is non-empty, and state_history has grown by   *)
(* WorkflowReady when it was called in WorkflowValidation and by           *)
(* WorkflowValidation, WorkflowReady when it was called in                 *)
(* WorkflowBuilding.                                                       *)
C33_MoveToReady ==
    LET r == moveToReady(es)
    IN  /\ es.current_state \notin { STATE_5_WORKFLOW_BUILDING,
                                     STATE_6_WORKFLOW_VALIDATION } =>
               /\ r.outcome = "failure"
               /\ r.error = Error(CannotMarkReady, << es.current_state >>)
               /\ r.es = es
        /\ r.outcome = "success" =>
               /\ r.es.current_state = STATE_7_WORKFLOW_READY
               /\ r.es.validation_errors = << >>
               /\ ~NoNodes(r.es)
               /\ es.current_state = STATE_6_WORKFLOW_VALIDATION =>
                      r.es.state_history =
                          es.state_history \o << STATE_7_WORKFLOW_READY >>
               /\ es.current_state = STATE_5_WORKFLOW_BUILDING =>
                      r.es.state_history =
                          es.state_history \o << STATE_6_WORKFLOW_VALIDATION,
                                                 STATE_7_WORKFLOW_READY >>

(* moveToReady has succeeded, and moveToReady is refused in the state it   *)
(* has led to.                                                             *)
C33_Witness ==
    /\ last.op = "moveToReady"
    /\ last.outcome = "success"
    /\ es.current_state = STATE_7_WORKFLOW_READY
    /\ SubSeq(es.state_history, Len(es.state_history) - 2, Len(es.state_history))
           = << STATE_5_WORKFLOW_BUILDING, STATE_6_WORKFLOW_VALIDATION,
                STATE_7_WORKFLOW_READY >>
    /\ moveToReady(es).error.kind = CannotMarkReady

(* Whether sequence h1 is a prefix of sequence h2. *)
IsPrefix(h1, h2) ==
    /\ Len(h1) <= Len(h2)
    /\ SubSeq(h2, 1, Len(h1)) = h1

(* C34: every call of a method other than reset leaves the state_history   *)
(* it found as a prefix of the state_history it leaves, and appends one    *)
(* entry per successful transition: each entry appended is a state that    *)
(* the table lists under the entry before it, current_state is the last    *)
(* entry, and a call that appends nothing leaves current_state.            *)
C34_HistoryAppendOnly ==
    [][last'.op # "reset"
         => /\ IsPrefix(es.state_history, es'.state_history)
            /\ \A i \in (Len(es.state_history) + 1)..Len(es'.state_history) :
                   es'.state_history[i] \in ListedUnder(es'.state_history[i - 1])
            /\ es'.current_state = Last(es'.state_history)
            /\ Len(es'.state_history) = Len(es.state_history)
                   => es'.current_state = es.current_state]_vars

(* A method other than reset has been called last, and state_history holds *)
(* a whole run from Idle to WorkflowReady with a retry in it.              *)
C34_Witness ==
    /\ last = Unwatched
    /\ Len(es.state_history) = MaxHistory
    /\ es.current_state = STATE_7_WORKFLOW_READY
    /\ es.retry_count > 0

(* C35: last_error is written by handleError only.  A call of any other    *)
(* method leaves last_error as it was, unless it is a call of reset, which *)
(* reinitializes the aggregate; and handleError(m) leaves last_error = m   *)
(* only when it has moved the machine into ErrorHandling, with the entry   *)
(* of that transition appended to state_history.                           *)
C35_LastErrorOnlyWithErrorHandling ==
    [][/\ (last'.op = "handleError" /\ es'.last_error \in ErrorMessages)
            => /\ es'.current_state = STATE_ERROR_HANDLING
               /\ es'.state_history =
                      Append(es.state_history, STATE_ERROR_HANDLING)
       /\ last'.op # "handleError"
            => \/ es'.last_error = es.last_error
               \/ es' = reset(es).es]_vars

(* The aggregates that a call of a guarded operation or of an              *)
(* orchestration helper other than reset can leave when it finds           *)
(* aggregate s, whatever its arguments.                                    *)
AfterGuardedCall(s) ==
    { setUserPrompt(s, p).es : p \in AllPrompts }
      \cup { setClarifyingQuestions(s, q).es : q \in AllQuestionLists }
      \cup { setClarifyingAnswers(s, a).es : a \in AllAnswerMaps }
      \cup { confirmUnderstanding(s, u).es : u \in Understandings }
      \cup { setRequiredCredentials(s, c).es : c \in AllCredentialLists }
      \cup { setProvidedCredentials(s, c).es : c \in AllCredentialMaps }
      \cup { setWorkflowBlueprint(s, b).es : b \in AllBlueprints }
      \cup { addValidationError(s, e).es : e \in ValidationErrors }
      \cup { handleError(s, m).es : m \in ErrorMessages }
      \cup { moveToValidation(s, b).es : b \in AllBlueprints }
      \cup { startBuilding(s).es, clearValidationErrors(s).es,
             retryBuilding(s).es, markWorkflowReady(s).es,
             ensureStateForBuilding(s).es, moveToReady(s).es }

InvalidStateForBuilding == "Invalid state for building"

(* C36: while current_state is ErrorHandling, no guarded operation and no  *)
(* orchestration helper other than reset changes current_state, reset      *)
(* leads to Idle, and a direct transitionTo succeeds exactly for the       *)
(* targets ClarificationActive and Idle, which it then enters: the machine *)
(* leaves ErrorHandling for these two states only.                         *)
C36_ErrorHandlingExits ==
    es.current_state = STATE_ERROR_HANDLING =>
        /\ \A after \in AfterGuardedCall(es) :
               /\ after.current_state = STATE_ERROR_HANDLING
               /\ after.state_history = es.state_history
        /\ reset(es).es.current_state = STATE_0_IDLE
        /\ \A t \in WorkflowGenerationState :
               LET r == transitionTo(es, t)
               IN  /\ r.outcome = "success"
                        <=> t \in { STATE_2_CLARIFICATION_ACTIVE, STATE_0_IDLE }
                   /\ r.es.current_state =
                        IF r.outcome = "success" THEN t ELSE STATE_ERROR_HANDLING

(* ensureStateForBuilding has been called in ErrorHandling and has         *)
(* reported the invalid state.                                             *)
C36_Witness ==
    /\ last.op = "ensureStateForBuilding"
    /\ last.outcome = "failure"
    /\ last.error = InvalidStateForBuilding
    /\ es.current_state = STATE_ERROR_HANDLING

(* C37: isTerminalState, in every state, hands back true exactly when      *)
(* current_state is WorkflowReady or ErrorHandling, and changes nothing.   *)
C37_IsTerminalState ==
    [][last'.op = "isTerminalState"
         => /\ es' = es
            /\ last'.outcome = "true"
                 <=> es.current_state \in { STATE_7_WORKFLOW_READY,
                                            STATE_ERROR_HANDLING }
            /\ last'.outcome = "false"
                 <=> es.current_state \notin { STATE_7_WORKFLOW_READY,
                                               STATE_ERROR_HANDLING }]_vars

(* isTerminalState has handed back true in ErrorHandling. *)
C37_Witness ==
    /\ last.op = "isTerminalState"
    /\ last.outcome = "true"
    /\ es.current_state = STATE_ERROR_HANDLING

(* C38: callers that never call transitionTo themselves cannot get past    *)
(* the credential guard: whenever a call moves the machine into            *)
(* WorkflowBuilding, every name in credentials_required has a value in     *)
(* credentials_provided.                                                   *)
C38_CredentialGuardNotBypassed ==
    [][(es.current_state # STATE_5_WORKFLOW_BUILDING
          /\ es'.current_state = STATE_5_WORKFLOW_BUILDING)
         => EveryCredentialProvided(es')]_vars

(* C39: callers that never call transitionTo themselves find, whenever     *)
(* current_state is WorkflowReady, validation_errors empty and             *)
(* workflow_blueprint.nodes a non-empty list, whatever they have called    *)
(* since the workflow became ready.                                        *)
C39_ReadyStaysValid ==
    es.current_state = STATE_7_WORKFLOW_READY =>
        /\ es.validation_errors = << >>
        /\ ~NoNodes(es)

(* The state that each of the eight steps of the wizard stands for. *)
StateOfStep ==
    [ idle |-> STATE_0_IDLE,
      analyzing |-> STATE_1_USER_PROMPT_RECEIVED,
      questioning |-> STATE_2_CLARIFICATION_ACTIVE,
      refining |-> STATE_2_CLARIFICATION_ACTIVE,
      confirmation |-> STATE_3_UNDERSTANDING_CONFIRMED,
      credentials |-> STATE_4_CREDENTIAL_COLLECTION,
      building |-> STATE_5_WORKFLOW_BUILDING,
      complete |-> STATE_7_WORKFLOW_READY ]

(* C40: mapWizardStepToState maps the eight steps of the wizard to Idle,   *)
(* PromptReceived, ClarificationActive, ClarificationActive,               *)
(* UnderstandingConfirmed, CredentialCollection, WorkflowBuilding and      *)
(* WorkflowReady, and every other text to Idle; mapStateToWizardStep maps  *)
(* WorkflowBuilding and WorkflowValidation to building and ErrorHandling   *)
(* to idle; and mapping a state to a step and the step back to a state     *)
(* gives the state again, for every state but WorkflowValidation and       *)
(* ErrorHandling.                                                          *)
C40_ExternalMapping ==
    [][last'.op = "mapWizardStepToState"
         => /\ last'.state = IF last'.step \in DOMAIN StateOfStep
                             THEN StateOfStep[last'.step]
                             ELSE STATE_0_IDLE
            /\ mapStateToWizardStep(STATE_5_WORKFLOW_BUILDING) = "building"
            /\ mapStateToWizardStep(STATE_6_WORKFLOW_VALIDATION) = "building"
            /\ mapStateToWizardStep(STATE_ERROR_HANDLING) = "idle"
            /\ \A S \in WorkflowGenerationState \ { STATE_6_WORKFLOW_VALIDATION,
                                                     STATE_ERROR_HANDLING } :
                   mapWizardStepToState(mapStateToWizardStep(S)) = S]_vars

=============================================================================
